---- MODULE Spec2Model ----
(***************************************************************************)
(* LexiScope: the memory store behind the HTTP API (src/server/index.ts),  *)
(* the chat orchestrator, and the realtime session manager                 *)
(* (realtime-agent, src/unnamed/part_001).                                 *)
(*                                                                         *)
(* Conventions                                                             *)
(*  - text (content, message, response) is a sequence of characters;       *)
(*    the literal pieces of a template are single tokens;                  *)
(*  - a userId is a string, "" being the missing / empty (falsy) one;      *)
(*  - every other identifier is a number: 0 is the missing / empty         *)
(*    (falsy) one, 1..MaxClientConv are the conversation ids a client may  *)
(*    send, and uuidv4 yields numbers above MaxClientConv;                 *)
(*  - an optional argument is <<>> (undefined) or <<v>>;                   *)
(*  - importance is counted in tenths (0.5 is 5).                          *)
(***************************************************************************)
EXTENDS Integers, Sequences, FiniteSets, TLC

\* ---------------------------------------------------------------- bounds
MaxStore      == 2   \* objects in the collection (Spec)
MaxClock      == 0   \* clock ticks
MaxDist       == 1   \* distances a nearText query tells apart, 0..MaxDist
MaxSelected   == 2   \* length of a selectedMemories list
MaxClientConv == 1   \* conversation ids a client sends
MaxOwn        == 5   \* memories of the first user (SpecBulk)
MaxBulkClock  == 1   \* clock ticks (SpecBulk)
MaxExtra      == 1   \* objects beyond the fetch limit (SpecBulk)
MaxSessions   == 2   \* upstream sockets (SpecRT)
MaxClients    == 1   \* downstream sockets (SpecRT)
MaxSent       == 2   \* events sent on one upstream socket (SpecRT)
MaxReceived   == 1   \* events sent to one downstream socket (SpecRT)
MaxAttached   == 1   \* length of a realtime selectedMemories list (SpecRT)
MaxEmitted    == 3   \* events the upstream sockets emit (SpecRelay)
MaxJoins      == 2   \* join_session messages of one client (SpecRelay)
MaxTurns      == 1   \* messages sent to the sessions (SpecRelay)
MaxOutbox     == 2   \* requests of the page in flight (SpecPage)
MaxPageSent   == 5   \* events sent on the page's upstream socket (SpecPage)

\* ------------------------------------------------------ program constants
FetchLimit        == 50   \* getAllMemories: fetchObjects({ limit: 50 })
ChatSearchLimit   == 3    \* generateResponse: searchMemories(message, userId, 3)
DefaultImportance == 5    \* storeMemory: importance = 0.5
ApiSearchLimit    == 10   \* POST /api/memories/search: limit = 10

\* ------------------------------------------------------------ input sets
Users    == {"u1", "u2"}
NoUser   == ""
NoId     == 0
NoText   == <<>>
ClientConversationIds == 1..MaxClientConv
Messages  == {<<"h">>}
Responses == {<<"x">>}
Contents  == {<<"H">>}
Queries   == {<<"h">>}

VARIABLES
  store,             \* the HackathonMemory collection, in listing order
  collectionExists,  \* whether the collection exists in the database
  clock,             \* the server's clock
  reply,             \* the response the server sent last
  sessions,          \* RealtimeAgent.sessions
  upstream,          \* the sockets to the streaming completion API
  pending,           \* createSession calls waiting for their socket
  clients,           \* the WebSocket connections accepted on /realtime
  page               \* the chat page of one browser (ChatPage and its hooks)

vars == <<store, collectionExists, clock, reply, sessions, upstream, pending, clients, page>>
memVars == <<store, collectionExists, clock>>
rtVars  == <<sessions, upstream, pending, clients>>

\* --------------------------------------------------------------- helpers
Range(s) == {s[i] : i \in 1..Len(s)}

Min(a, b) == IF a < b THEN a ELSE b

\* Array.prototype.slice(0, n)
slice(s, n) == SubSeq(s, 1, Min(n, Len(s)))

\* the identifiers a new uuid cannot collide with
InUse ==
  {store[i].uuid : i \in 1..Len(store)}
    \cup {store[i].properties.conversationId : i \in 1..Len(store)}
    \cup DOMAIN sessions
    \cup {sessions[s].conversationId : s \in DOMAIN sessions}
    \cup {p.sessionId : p \in pending}
    \cup {p.conversationId : p \in pending}

\* uuidv4(): an identifier that is in use nowhere (the least such number)
uuidv4(taken) ==
  CHOOSE n \in (MaxClientConv + 1)..(MaxClientConv + Cardinality(taken) + 1) :
    /\ n \notin taken
    /\ \A k \in (MaxClientConv + 1)..(n - 1) : k \in taken

\* `User: ${message}\nAssistant: ${assistantResponse}`
Turn(message, assistantResponse) ==
  <<"User: ">> \o message \o <<"\nAssistant: ">> \o assistantResponse

\* String.prototype.toLowerCase and String.prototype.includes
Lower(c) == CASE c = "H" -> "h" [] c = "X" -> "x" [] OTHER -> c
toLowerCase(s) == [i \in 1..Len(s) |-> Lower(s[i])]
includes(s, t) == \E i \in 0..(Len(s) - Len(t)) : SubSeq(s, i + 1, i + Len(t)) = t

NoReply == [op |-> "none", status |-> 0]

\* the chat page before it is mounted
NoPage == [mounted |-> FALSE]

\* ------------------------------------------------- SimpleMemoryManager
\* collection.data.insert: the database assigns the object's uuid
insert(objects, properties, taken) ==
  Append(objects, [uuid |-> uuidv4(taken), properties |-> properties])

\* storeMemory with the failure of the insert swallowed
storeMemorySwallows(content, userId, conversationId, memoryType, importance, now, taken, ok) ==
  LET memoryId == uuidv4(taken)
      properties ==
        [content        |-> content,
         timestamp      |-> now,
         userId         |-> userId,
         conversationId |-> conversationId,
         memoryType     |-> IF memoryType = <<>> THEN "context" ELSE memoryType[1],
         importance     |-> IF importance = <<>> THEN DefaultImportance ELSE importance[1]]
  IN  [threw    |-> FALSE,
       memoryId |-> memoryId,
       store    |-> IF ok THEN insert(store, properties, taken \cup {memoryId}) ELSE store]

\* storeMemory: ok is whether the insert succeeded; the result is the value
\* returned (or threw) and the collection afterwards
storeMemory(content, userId, conversationId, memoryType, importance, now, taken, ok) ==
  LET memoryId == uuidv4(taken)
      properties ==
        [content        |-> content,
         timestamp      |-> now,
         userId         |-> userId,
         conversationId |-> conversationId,
         memoryType     |-> IF memoryType = <<>> THEN "context" ELSE memoryType[1],
         importance     |-> IF importance = <<>> THEN DefaultImportance ELSE importance[1]]
  IN  [threw    |-> ~ok,
       memoryId |-> memoryId,
       store    |-> IF ok THEN insert(store, properties, taken \cup {memoryId}) ELSE store]

\* a Memory as searchMemories returns it
searchResult(obj, distance) ==
  [content        |-> obj.properties.content,
   timestamp      |-> obj.properties.timestamp,
   userId         |-> obj.properties.userId,
   conversationId |-> obj.properties.conversationId,
   memoryType     |-> obj.properties.memoryType,
   importance     |-> obj.properties.importance,
   additional     |-> [id |-> obj.uuid, distance |-> distance]]

\* a Memory as getAllMemories returns it
listResult(obj) ==
  [content        |-> obj.properties.content,
   timestamp      |-> obj.properties.timestamp,
   userId         |-> obj.properties.userId,
   conversationId |-> obj.properties.conversationId,
   memoryType     |-> obj.properties.memoryType,
   importance     |-> obj.properties.importance,
   additional     |-> [id |-> obj.uuid]]

\* Array.prototype.sort((a, b) => key(a) - key(b)) on a sequence of
\* [key, value]: the values, ascending in the key and stable (values of equal
\* key keep their order)
sort(keyed) ==
  LET RECURSIVE byKey(_)
      byKey(keys) ==
        IF keys = {} THEN <<>>
        ELSE LET least == CHOOSE k \in keys : \A other \in keys : k <= other
                 these == SelectSeq(keyed, LAMBDA e : e.key = least)
             IN  [i \in 1..Len(these) |-> these[i].value] \o byKey(keys \ {least})
  IN  byKey({keyed[i].key : i \in 1..Len(keyed)})

\* collection.query.nearText(query, { limit }): the objects of the whole
\* collection by increasing distance to the query, at most limit of them;
\* dist[i] is the distance of the i-th object, as the embedding decides it
nearText(objects, dist, limit) ==
  LET idx == sort([i \in 1..Len(objects) |-> [key |-> dist[i], value |-> i]])
  IN  slice([k \in 1..Len(idx) |-> [obj |-> objects[idx[k]], distance |-> dist[idx[k]]]], limit)

\* collection.query.fetchObjects({ limit }): the first objects of the listing
fetchObjects(objects, limit) == slice(objects, limit)

\* searchMemories without the filter on userId
searchMemoriesUnscoped(objects, dist, userId, limit, ok) ==
  IF ~ok THEN <<>>
  ELSE
    LET result == nearText(objects, dist, limit * 2)
        filteredResults == slice(result, limit)
    IN  [k \in 1..Len(filteredResults) |->
           searchResult(filteredResults[k].obj, filteredResults[k].distance)]

\* searchMemories(query, userId, limit); ok is whether the query succeeded
searchMemories(objects, dist, userId, limit, ok) ==
  IF ~ok THEN <<>>
  ELSE
    LET result == nearText(objects, dist, limit * 2)
        filteredResults ==
          slice(SelectSeq(result, LAMBDA r : r.obj.properties.userId = userId), limit)
    IN  [k \in 1..Len(filteredResults) |->
           searchResult(filteredResults[k].obj, filteredResults[k].distance)]

\* getAllMemories(userId); ok is whether the query succeeded
getAllMemories(objects, userId, ok) ==
  IF ~ok THEN <<>>
  ELSE
    LET result == fetchObjects(objects, FetchLimit)
        own == SelectSeq(result, LAMBDA obj : obj.properties.userId = userId)
        filteredResults ==
          sort([k \in 1..Len(own) |->
                  [key |-> 0 - own[k].properties.timestamp, value |-> own[k]]])
    IN  [k \in 1..Len(filteredResults) |-> listResult(filteredResults[k])]

\* Array.prototype.join of pieces of text
RECURSIVE join(_, _)
join(pieces, sep) ==
  IF pieces = <<>> THEN <<>>
  ELSE IF Len(pieces) = 1 THEN pieces[1]
  ELSE pieces[1] \o sep \o join(Tail(pieces), sep)

\* ------------------------------------------------------ SimpleChatAgent
\* generateResponse searching whatever the request selected
generateResponseAlwaysSearches(message, userId, conversationId, selectedMemories, dist, searchOk, completion, now, taken, insertOk) ==
  LET relevantMemories == searchMemories(store, dist, userId, ChatSearchLimit, searchOk)
      assistantResponse == IF completion = <<>> THEN <<>> ELSE completion[1]
      stored ==
        storeMemory(Turn(message, assistantResponse), userId, conversationId,
                    <<>>, <<>>, now, taken, insertOk)
  IN  [threw        |-> completion = <<>> \/ stored.threw,
       response     |-> assistantResponse,
       usedMemories |-> relevantMemories,
       searched     |-> TRUE,
       systemPrompt |-> <<"You are a helpful AI assistant. ">>,
       store        |-> IF completion = <<>> THEN store ELSE stored.store]

\* generateResponse; completion is <<>> when the chat completion call
\* throws and <<text>> when it answers text
generateResponse(message, userId, conversationId, selectedMemories, dist, searchOk, completion, now, taken, insertOk) ==
  LET searched == Len(selectedMemories) = 0
      relevantMemories ==
        IF searched
        THEN searchMemories(store, dist, userId, ChatSearchLimit, searchOk)
        ELSE selectedMemories
      memoryContext ==
        join([k \in 1..Len(relevantMemories) |->
                <<"Memory: ">> \o relevantMemories[k].content], <<"\n">>)
      systemPrompt ==
        <<"You are a helpful AI assistant. ">>
          \o (IF memoryContext # <<>>
              THEN <<"\n\nRelevant memories:\n">> \o memoryContext
              ELSE <<>>)
      assistantResponse == IF completion = <<>> THEN <<>> ELSE completion[1]
      stored ==
        storeMemory(Turn(message, assistantResponse), userId, conversationId,
                    <<>>, <<>>, now, taken, insertOk)
  IN  [threw        |-> completion = <<>> \/ stored.threw,
       response     |-> assistantResponse,
       usedMemories |-> relevantMemories,
       searched     |-> searched,
       systemPrompt |-> systemPrompt,
       store        |-> IF completion = <<>> THEN store ELSE stored.store]

\* ----------------------------------------------------------- HTTP routes
\* a query reaches the collection only when the collection exists
QueryOk(ok) == ok /\ collectionExists

\* GET /api/memories/:userId
GetMemories(userId, ok) ==
  /\ reply' = [op      |-> "GET /api/memories",
               status  |-> 200,
               request |-> [userId |-> userId],
               body    |-> getAllMemories(store, userId, QueryOk(ok))]
  /\ UNCHANGED memVars
  /\ UNCHANGED rtVars

\* POST /api/chat
PostChat(message, userId, conversationId, selectedMemories, dist, searchOk, completion, dt, insertOk) ==
  LET request == [message          |-> message,
                  userId           |-> userId,
                  conversationId   |-> conversationId,
                  selectedMemories |-> selectedMemories]
  IN
  /\ IF message = NoText \/ userId = NoUser
     THEN /\ reply' = [op |-> "POST /api/chat", status |-> 400,
                       request |-> request,
                       body |-> [error |-> "Message and userId required"]]
          /\ UNCHANGED memVars
     ELSE LET conv   == IF conversationId # NoId THEN conversationId ELSE uuidv4(InUse)
              result == generateResponse(message, userId, conv, selectedMemories,
                                         dist, QueryOk(searchOk), completion,
                                         clock + dt, InUse \cup {conv}, insertOk)
          IN  /\ store' = result.store
              /\ clock' = clock + dt
              /\ collectionExists' = (collectionExists \/ Len(result.store) > Len(store))
              /\ reply' =
                   IF result.threw
                   THEN [op |-> "POST /api/chat", status |-> 500,
                         request |-> request,
                         body |-> [error |-> "Chat failed"]]
                   ELSE [op |-> "POST /api/chat", status |-> 200,
                         request |-> request,
                         body |-> [response     |-> result.response,
                                   usedMemories |-> result.usedMemories],
                         searched       |-> result.searched,
                         systemPrompt   |-> result.systemPrompt]
  /\ UNCHANGED rtVars

\* POST /api/memories storing under the conversationId as the request has it
PostMemoriesKeepsConversationId(content, userId, conversationId, memoryType, importance, dt, insertOk) ==
  LET request == [content        |-> content,
                  userId         |-> userId,
                  conversationId |-> conversationId,
                  memoryType     |-> memoryType,
                  importance     |-> importance]
  IN
  /\ IF content = NoText \/ userId = NoUser
     THEN /\ reply' = [op |-> "POST /api/memories", status |-> 400,
                       request |-> request,
                       body |-> [error |-> "Content and userId required"]]
          /\ UNCHANGED memVars
     ELSE LET result == storeMemory(content, userId, conversationId, memoryType,
                                    importance, clock + dt, InUse, insertOk)
          IN  /\ store' = result.store
              /\ clock' = clock + dt
              /\ collectionExists' = (collectionExists \/ ~result.threw)
              /\ reply' =
                   IF result.threw
                   THEN [op |-> "POST /api/memories", status |-> 500,
                         request |-> request,
                         body |-> [error |-> "Failed to store memory"]]
                   ELSE [op |-> "POST /api/memories", status |-> 200,
                         request |-> request,
                         body |-> [memoryId |-> result.memoryId, success |-> TRUE]]
  /\ UNCHANGED rtVars

\* POST /api/memories
PostMemories(content, userId, conversationId, memoryType, importance, dt, insertOk) ==
  LET request == [content        |-> content,
                  userId         |-> userId,
                  conversationId |-> conversationId,
                  memoryType     |-> memoryType,
                  importance     |-> importance]
  IN
  /\ IF content = NoText \/ userId = NoUser
     THEN /\ reply' = [op |-> "POST /api/memories", status |-> 400,
                       request |-> request,
                       body |-> [error |-> "Content and userId required"]]
          /\ UNCHANGED memVars
     ELSE LET conv   == IF conversationId # NoId THEN conversationId ELSE uuidv4(InUse)
              result == storeMemory(content, userId, conv, memoryType, importance,
                                    clock + dt, InUse \cup {conv}, insertOk)
          IN  /\ store' = result.store
              /\ clock' = clock + dt
              /\ collectionExists' = (collectionExists \/ ~result.threw)
              /\ reply' =
                   IF result.threw
                   THEN [op |-> "POST /api/memories", status |-> 500,
                         request |-> request,
                         body |-> [error |-> "Failed to store memory"]]
                   ELSE [op |-> "POST /api/memories", status |-> 200,
                         request |-> request,
                         body |-> [memoryId |-> result.memoryId, success |-> TRUE]]
  /\ UNCHANGED rtVars

\* POST /api/memories/search
PostMemoriesSearch(query, userId, limit, dist, ok) ==
  LET request == [query |-> query, userId |-> userId, limit |-> limit]
  IN
  /\ IF query = NoText \/ userId = NoUser
     THEN reply' = [op |-> "POST /api/memories/search", status |-> 400,
                    request |-> request,
                    body |-> [error |-> "Query and userId required"]]
     ELSE reply' = [op |-> "POST /api/memories/search", status |-> 200,
                    request |-> request,
                    body |-> searchMemories(store, dist, userId,
                                            IF limit = <<>> THEN ApiSearchLimit ELSE limit[1],
                                            QueryOk(ok))]
  /\ UNCHANGED memVars
  /\ UNCHANGED rtVars

\* ----------------------------------------------------------- startServer
\* initSchema: outcome is the call that throws, if any
initSchema(outcome) ==
  IF outcome = "exists throws" THEN [store |-> store, collectionExists |-> collectionExists]
  ELSE IF collectionExists /\ outcome = "delete throws"
       THEN [store |-> store, collectionExists |-> TRUE]
  ELSE [store |-> <<>>, collectionExists |-> outcome # "create throws"]

InitSchemaOutcomes == {"ok", "exists throws", "delete throws", "create throws"}

\* startServer: a new server process (with a new, empty RealtimeAgent)
\* against the database the previous one left
StartServer(outcome) ==
  /\ store' = initSchema(outcome).store
  /\ collectionExists' = initSchema(outcome).collectionExists
  /\ reply' = NoReply
  /\ sessions' = << >>
  /\ pending' = {}
  /\ upstream' = [u \in DOMAIN upstream |-> [upstream[u] EXCEPT !.state = "closed"]]
  /\ clients' = [w \in DOMAIN clients |-> [clients[w] EXCEPT !.state = "closed"]]
  /\ UNCHANGED clock

\* ------------------------------------------------------------------ Init
Init ==
  /\ store = <<>>
  /\ collectionExists = TRUE
  /\ clock = 0
  /\ reply = NoReply
  /\ sessions = << >>
  /\ upstream = <<>>
  /\ pending = {}
  /\ clients = <<>>
  /\ page = NoPage

\* ------------------------------------------------ Spec: the memory API
\* what a client can have in hand: the memories a listing returns
Listed(objects) == {listResult(objects[i]) : i \in 1..Len(objects)}

\* the selectedMemories lists over a set of memories
SelectedOver(S) == UNION {[1..n -> S] : n \in 0..MaxSelected}

Distances(objects) == [1..Len(objects) -> 0..MaxDist]

OptionalTypes == {<<>>}
\* an importance is absent or any number the client sends, in tenths
OptionalImportance == {<<>>, <<15>>}
OptionalLimits == {<<>>, <<1>>}
Completions == {<<>>} \cup {<<r>> : r \in Responses}

DoGetMemories == UNCHANGED page /\ \E userId \in Users, ok \in BOOLEAN : GetMemories(userId, ok)

NoDist(objects) == [i \in 1..Len(objects) |-> 0]

\* the time that passes before a memory is stored, in clock ticks
Ticks == 0..1

\* an input is drawn only for the requests that read it
DoPostChat ==
  /\ UNCHANGED page
  /\ Len(store) < MaxStore
  /\ \E message \in Messages \cup {NoText}, userId \in Users \cup {NoUser} :
       IF message = NoText \/ userId = NoUser
       THEN PostChat(message, userId, NoId, <<>>, NoDist(store), TRUE, <<>>, 0, TRUE)
       ELSE
         \E conversationId \in ClientConversationIds \cup {NoId},
            selectedMemories \in SelectedOver(Listed(store)),
            completion \in Completions :
           IF completion = <<>>
           THEN PostChat(message, userId, conversationId, selectedMemories,
                         NoDist(store), TRUE, completion, 0, TRUE)
           ELSE
             \E dt \in Ticks, insertOk \in BOOLEAN :
               /\ clock + dt <= MaxClock
               /\ IF selectedMemories # <<>>
                  THEN PostChat(message, userId, conversationId, selectedMemories,
                                NoDist(store), TRUE, completion, dt, insertOk)
                  ELSE
                    \/ PostChat(message, userId, conversationId, selectedMemories,
                                NoDist(store), FALSE, completion, dt, insertOk)
                    \/ \E dist \in Distances(store) :
                         PostChat(message, userId, conversationId, selectedMemories,
                                  dist, TRUE, completion, dt, insertOk)

DoPostMemories ==
  /\ UNCHANGED page
  /\ Len(store) < MaxStore
  /\ \E content \in Contents \cup {NoText}, userId \in Users \cup {NoUser} :
       IF content = NoText \/ userId = NoUser
       THEN PostMemories(content, userId, NoId, <<>>, <<>>, 0, TRUE)
       ELSE
         \E conversationId \in ClientConversationIds \cup {NoId},
            memoryType \in OptionalTypes, importance \in OptionalImportance,
            dt \in Ticks, insertOk \in BOOLEAN :
           /\ clock + dt <= MaxClock
           /\ PostMemories(content, userId, conversationId, memoryType, importance,
                           dt, insertOk)

DoPostMemoriesSearch ==
  /\ UNCHANGED page
  /\ \E query \in Queries \cup {NoText}, userId \in Users \cup {NoUser} :
       IF query = NoText \/ userId = NoUser
       THEN PostMemoriesSearch(query, userId, <<>>, NoDist(store), TRUE)
       ELSE
         \E limit \in OptionalLimits :
           \/ PostMemoriesSearch(query, userId, limit, NoDist(store), FALSE)
           \/ \E dist \in Distances(store) :
                PostMemoriesSearch(query, userId, limit, dist, TRUE)

DoStartServer == UNCHANGED page /\ \E outcome \in InitSchemaOutcomes : StartServer(outcome)

Next ==
  \/ DoGetMemories
  \/ DoPostChat
  \/ DoPostMemories
  \/ DoPostMemoriesSearch
  \/ DoStartServer

Spec == Init /\ [][Next]_vars

\* ------------------------------- SpecBulk: the same API on a large collection
\* The collection holds FetchLimit - 1 memories of the second user, who stores
\* up to MaxExtra objects beyond the fetch limit; the first user chats, up to
\* MaxOwn turns.
OwnedBy(objects, userId) == SelectSeq(objects, LAMBDA obj : obj.properties.userId = userId)

\* the embedding puts all objects at one distance, or one user's nearer
BulkDistances(objects) ==
  {NoDist(objects)}
    \cup {[i \in 1..Len(objects) |-> IF objects[i].properties.userId = near THEN 0 ELSE MaxDist] :
            near \in Users}

\* the memories at both ends of the listing
Ends(objects) ==
  IF objects = <<>> THEN {} ELSE {listResult(objects[1]), listResult(objects[Len(objects)])}

BulkPostMemories ==
  /\ UNCHANGED page
  /\ Len(OwnedBy(store, "u2")) < FetchLimit + MaxExtra
  /\ \E content \in Contents :
       PostMemories(content, "u2", 1, <<>>, <<>>, 0, TRUE)

BulkPostChat ==
  /\ UNCHANGED page
  /\ Len(OwnedBy(store, "u1")) < MaxOwn
  /\ \E message \in Messages, conversationId \in ClientConversationIds,
        selectedMemories \in SelectedOver(Ends(store)),
        completion \in {<<r>> : r \in Responses}, dt \in Ticks :
       /\ clock + dt <= MaxBulkClock
       /\ IF selectedMemories # <<>>
          THEN PostChat(message, "u1", conversationId, selectedMemories,
                        NoDist(store), TRUE, completion, dt, TRUE)
          ELSE \E dist \in BulkDistances(store) :
                 PostChat(message, "u1", conversationId, selectedMemories,
                          dist, TRUE, completion, dt, TRUE)

BulkGetMemories == UNCHANGED page /\ \E userId \in Users : GetMemories(userId, TRUE)

BulkPostMemoriesSearch ==
  /\ UNCHANGED page
  /\ \E query \in Queries, userId \in Users, limit \in OptionalLimits,
        dist \in BulkDistances(store) :
       PostMemoriesSearch(query, userId, limit, dist, TRUE)

NextBulk ==
  \/ BulkPostMemories
  \/ BulkPostChat
  \/ BulkGetMemories
  \/ BulkPostMemoriesSearch

\* the collection after the second user has stored k memories
Filled(k) ==
  [i \in 1..k |->
     [uuid       |-> MaxClientConv + i,
      properties |-> [content        |-> <<"H">>,
                      timestamp      |-> 0,
                      userId         |-> "u2",
                      conversationId |-> 1,
                      memoryType     |-> "context",
                      importance     |-> DefaultImportance]]]

InitBulk ==
  /\ store = Filled(FetchLimit - 1)
  /\ collectionExists = TRUE
  /\ clock = 0
  /\ reply = NoReply
  /\ sessions = << >>
  /\ upstream = <<>>
  /\ pending = {}
  /\ clients = <<>>
  /\ page = NoPage

SpecBulk == InitBulk /\ [][NextBulk]_vars

\* -------------------------------------------------------- RealtimeAgent
\* the instructions createSession builds from the selected memories
createInstructions(selectedMemories) ==
  LET memoryContext ==
        join([k \in 1..Len(selectedMemories) |-> <<"- ">> \o selectedMemories[k].content],
             <<"\n">>)
  IN  <<"You are a helpful AI assistant with access to the user's conversation history and memories.\n\n">>
        \o (IF memoryContext # <<>>
            THEN <<"IMPORTANT CONTEXT - The user has specifically selected these memories as relevant to their questions:\n">>
                   \o memoryContext \o <<"\n\nUse this context to understand references">>
            ELSE <<>>)
        \o <<"\n\nRespond naturally and helpfully">>

\* the instructions updateSessionMemories builds from the selected memories
updateInstructions(selectedMemories) ==
  LET memoryContext ==
        join([k \in 1..Len(selectedMemories) |-> <<"Memory: ">> \o selectedMemories[k].content],
             <<"\n">>)
  IN  <<"You are a helpful AI assistant with access to the user's conversation history and memories. Use the provided memories to personalize your responses.\n\n">>
        \o (IF memoryContext # <<>>
            THEN <<"Relevant memories:\n">> \o memoryContext \o <<"\n">>
            ELSE <<>>)
        \o <<"\n\nRespond naturally and helpfully">>

sessionUpdate(instructions) == [type |-> "session.update", instructions |-> instructions]
conversationItem(message)   == [type |-> "conversation.item.create", text |-> message]
responseCreate              == [type |-> "response.create"]

\* WebSocket.send of a sequence of events on the open upstream socket u
wsSend(sockets, u, events) == [sockets EXCEPT ![u].sent = @ \o events]

\* createSession, first half: the identifiers and the connecting socket
createSession(userId, selectedMemories) ==
  LET sessionId      == uuidv4(InUse)
      conversationId == uuidv4(InUse \cup {sessionId})
  IN  [pending  |-> [sessionId        |-> sessionId,
                     conversationId   |-> conversationId,
                     ws               |-> Len(upstream) + 1,
                     userId           |-> userId,
                     selectedMemories |-> selectedMemories],
       upstream |-> Append(upstream, [state |-> "connecting", sent |-> <<>>,
                                      listeners |-> <<>>, emitted |-> <<>>])]

\* createSession, openaiWs.on('open'): the session is configured, stored
\* and returned
onOpen(p) ==
  LET opened == [upstream EXCEPT ![p.ws].state = "open"]
      sent   == wsSend(opened, p.ws,
                       <<sessionUpdate(createInstructions(p.selectedMemories))>>)
      session == [id             |-> p.sessionId,
                  ws             |-> p.ws,
                  userId         |-> p.userId,
                  conversationId |-> p.conversationId,
                  lastUserMessage |-> <<>>]
  IN  [upstream |-> sent,
       sessions |-> [s \in DOMAIN sessions \cup {p.sessionId} |->
                       IF s = p.sessionId THEN session ELSE sessions[s]],
       resolved |-> p.sessionId]

\* updateSessionMemories
updateSessionMemories(sockets, sessionId, selectedMemories) ==
  IF sessionId \notin DOMAIN sessions
  THEN [threw |-> TRUE, error |-> "Session not found", upstream |-> sockets]
  ELSE [threw |-> FALSE, error |-> "",
        upstream |-> wsSend(sockets, sessions[sessionId].ws,
                            <<sessionUpdate(updateInstructions(selectedMemories))>>)]

\* sendMessage with its events in another order: the response is asked for
\* before the user's message is added to the conversation
sendMessageAsksFirst(sessionId, message, attachedMemories) ==
  IF sessionId \notin DOMAIN sessions
  THEN [threw |-> TRUE, error |-> "Session not found",
        sessions |-> sessions, upstream |-> upstream]
  ELSE
    LET remembered == [sessions EXCEPT ![sessionId].lastUserMessage = <<message>>]
        updated ==
          IF Len(attachedMemories) > 0
          THEN updateSessionMemories(upstream, sessionId, attachedMemories).upstream
          ELSE upstream
    IN  [threw |-> FALSE, error |-> "",
         sessions |-> remembered,
         upstream |-> wsSend(updated, sessions[sessionId].ws,
                             <<responseCreate, conversationItem(message)>>)]

\* sendMessage
sendMessage(sessionId, message, attachedMemories) ==
  IF sessionId \notin DOMAIN sessions
  THEN [threw |-> TRUE, error |-> "Session not found",
        sessions |-> sessions, upstream |-> upstream]
  ELSE
    LET remembered == [sessions EXCEPT ![sessionId].lastUserMessage = <<message>>]
        updated ==
          IF Len(attachedMemories) > 0
          THEN updateSessionMemories(upstream, sessionId, attachedMemories).upstream
          ELSE upstream
    IN  [threw |-> FALSE, error |-> "",
         sessions |-> remembered,
         upstream |-> wsSend(updated, sessions[sessionId].ws,
                             <<conversationItem(message), responseCreate>>)]

\* the events of one type in a log of events
Count(log, type) == Len(SelectSeq(log, LAMBDA e : e.type = type))

RECURSIVE Sum(_, _)
Sum(f, S) == IF S = {} THEN 0 ELSE LET x == CHOOSE x \in S : TRUE IN f[x] + Sum(f, S \ {x})

\* the events the API has emitted so far, and the responses asked of it
Emitted == Sum([u \in DOMAIN upstream |-> Len(upstream[u].emitted)], DOMAIN upstream)
Turns   == Sum([u \in DOMAIN upstream |-> Count(upstream[u].sent, "response.create")],
               DOMAIN upstream)

\* setupEventHandlers adding the listener to every upstream socket
setupEventHandlersAll(sessionId, client) ==
  IF sessionId \notin DOMAIN sessions
  THEN [threw |-> TRUE, upstream |-> upstream]
  ELSE [threw |-> FALSE,
        upstream |-> [u \in DOMAIN upstream |->
                        [upstream[u] EXCEPT !.listeners =
                           Append(@, [client |-> client, sessionId |-> sessionId,
                                      since |-> Emitted])]]]

\* setupEventHandlers: session.ws.on('message', ...) adds a listener that
\* relays to the client's socket (since: the events emitted before it was added)
setupEventHandlers(sessionId, client) ==
  IF sessionId \notin DOMAIN sessions
  THEN [threw |-> TRUE, upstream |-> upstream]
  ELSE [threw |-> FALSE,
        upstream |-> [upstream EXCEPT ![sessions[sessionId].ws].listeners =
                        Append(@, [client |-> client, sessionId |-> sessionId,
                                   since |-> Emitted])]]

\* closeSession
closeSession(sessionId) ==
  IF sessionId \in DOMAIN sessions
  THEN [sessions |-> [s \in DOMAIN sessions \ {sessionId} |-> sessions[s]],
        upstream |-> [upstream EXCEPT ![sessions[sessionId].ws].state = "closed"]]
  ELSE [sessions |-> sessions, upstream |-> upstream]

\* ------------------------------------------------------- realtime routes
\* POST /api/realtime/session storing the session before its socket opens
PostRealtimeSessionEager(userId, selectedMemories) ==
  LET request == [userId |-> userId, selectedMemories |-> selectedMemories]
  IN
  /\ IF userId = NoUser
     THEN /\ reply' = [op |-> "POST /api/realtime/session", status |-> 400,
                       request |-> request, body |-> [error |-> "userId required"]]
          /\ UNCHANGED <<upstream, pending, sessions>>
     ELSE LET created == createSession(userId, selectedMemories)
          IN  /\ upstream' = created.upstream
              /\ pending' = pending \cup {created.pending}
              /\ sessions' = [s \in DOMAIN sessions \cup {created.pending.sessionId} |->
                                IF s = created.pending.sessionId
                                THEN [id              |-> s,
                                      ws              |-> created.pending.ws,
                                      userId          |-> userId,
                                      conversationId  |-> created.pending.conversationId,
                                      lastUserMessage |-> <<>>]
                                ELSE sessions[s]]
              /\ UNCHANGED reply
  /\ UNCHANGED clients
  /\ UNCHANGED memVars

\* POST /api/realtime/session, up to the wait for the upstream socket
PostRealtimeSession(userId, selectedMemories) ==
  LET request == [userId |-> userId, selectedMemories |-> selectedMemories]
  IN
  /\ IF userId = NoUser
     THEN /\ reply' = [op |-> "POST /api/realtime/session", status |-> 400,
                       request |-> request, body |-> [error |-> "userId required"]]
          /\ UNCHANGED <<upstream, pending>>
     ELSE LET created == createSession(userId, selectedMemories)
          IN  /\ upstream' = created.upstream
              /\ pending' = pending \cup {created.pending}
              /\ UNCHANGED reply
  /\ UNCHANGED <<sessions, clients>>
  /\ UNCHANGED memVars

\* the upstream socket of a waiting createSession opens: the request is
\* answered with the session id
UpstreamOpen(p) ==
  /\ p \in pending
  /\ LET opened == onOpen(p)
     IN  /\ upstream' = opened.upstream
         /\ sessions' = opened.sessions
         /\ reply' = [op |-> "POST /api/realtime/session", status |-> 200,
                      request |-> [userId |-> p.userId,
                                   selectedMemories |-> p.selectedMemories],
                      body |-> [sessionId |-> opened.resolved]]
  /\ pending' = pending \ {p}
  /\ UNCHANGED clients
  /\ UNCHANGED memVars

\* the upstream socket of a waiting createSession fails to connect
UpstreamError(p) ==
  /\ p \in pending
  /\ upstream' = [upstream EXCEPT ![p.ws].state = "closed"]
  /\ reply' = [op |-> "POST /api/realtime/session", status |-> 500,
               request |-> [userId |-> p.userId,
                            selectedMemories |-> p.selectedMemories],
               body |-> [error |-> "Failed to create realtime session"]]
  /\ pending' = pending \ {p}
  /\ UNCHANGED <<sessions, clients>>
  /\ UNCHANGED memVars

\* POST /api/realtime/message
PostRealtimeMessage(sessionId, message) ==
  LET request == [sessionId |-> sessionId, message |-> message]
  IN
  /\ IF sessionId = NoId \/ message = NoText
     THEN /\ reply' = [op |-> "POST /api/realtime/message", status |-> 400,
                       request |-> request,
                       body |-> [error |-> "sessionId and message required"]]
          /\ UNCHANGED <<sessions, upstream>>
     ELSE LET result == sendMessage(sessionId, message, <<>>)
          IN  /\ sessions' = result.sessions
              /\ upstream' = result.upstream
              /\ reply' =
                   IF result.threw
                   THEN [op |-> "POST /api/realtime/message", status |-> 500,
                         request |-> request,
                         body |-> [error |-> "Failed to send message"],
                         thrown |-> result.error]
                   ELSE [op |-> "POST /api/realtime/message", status |-> 200,
                         request |-> request, body |-> [success |-> TRUE]]
  /\ UNCHANGED <<pending, clients>>
  /\ UNCHANGED memVars

\* POST /api/realtime/update-memories
PostRealtimeUpdateMemories(sessionId, selectedMemories) ==
  LET request == [sessionId |-> sessionId, selectedMemories |-> selectedMemories]
  IN
  /\ IF sessionId = NoId
     THEN /\ reply' = [op |-> "POST /api/realtime/update-memories", status |-> 400,
                       request |-> request,
                       body |-> [error |-> "sessionId required"]]
          /\ UNCHANGED upstream
     ELSE LET result == updateSessionMemories(upstream, sessionId, selectedMemories)
          IN  /\ upstream' = result.upstream
              /\ reply' =
                   IF result.threw
                   THEN [op |-> "POST /api/realtime/update-memories", status |-> 500,
                         request |-> request,
                         body |-> [error |-> "Failed to update memories"],
                         thrown |-> result.error]
                   ELSE [op |-> "POST /api/realtime/update-memories", status |-> 200,
                         request |-> request, body |-> [success |-> TRUE]]
  /\ UNCHANGED <<sessions, pending, clients>>
  /\ UNCHANGED memVars

\* wss.on('connection'): a client's WebSocket is accepted on /realtime
WsConnection ==
  /\ clients' = Append(clients, [state |-> "open", received |-> <<>>])
  /\ UNCHANGED <<sessions, upstream, pending, reply>>
  /\ UNCHANGED memVars

\* join_session acknowledged before the handlers are set up
WsJoinSessionAcks(w, sessionId) ==
  /\ w \in DOMAIN clients
  /\ clients[w].state = "open"
  /\ LET result == setupEventHandlers(sessionId, w)
     IN  /\ upstream' = result.upstream
         /\ clients' =
              [clients EXCEPT ![w].received =
                 @ \o <<[type |-> "joined", sessionId |-> sessionId]>>
                   \o (IF result.threw
                       THEN <<[type |-> "error", error |-> "Invalid message format"]>>
                       ELSE <<>>)]
  /\ UNCHANGED <<sessions, pending, reply>>
  /\ UNCHANGED memVars

\* ws.on('message') for { type: 'join_session', sessionId }
WsJoinSession(w, sessionId) ==
  /\ w \in DOMAIN clients
  /\ clients[w].state = "open"
  /\ LET result == setupEventHandlers(sessionId, w)
     IN  /\ upstream' = result.upstream
         /\ clients' =
              [clients EXCEPT ![w].received =
                 Append(@, IF result.threw
                           THEN [type |-> "error", error |-> "Invalid message format"]
                           ELSE [type |-> "joined", sessionId |-> sessionId])]
  /\ UNCHANGED <<sessions, pending, reply>>
  /\ UNCHANGED memVars

\* ws.on('close'): the client's WebSocket closes; the server logs it
WsClose(w) ==
  /\ w \in DOMAIN clients
  /\ clients[w].state = "open"
  /\ clients' = [clients EXCEPT ![w].state = "closed"]
  /\ UNCHANGED <<sessions, upstream, pending, reply>>
  /\ UNCHANGED memVars

\* ---------------------------------------------- events of the upstream API
sessionCreated     == [type |-> "session.created"]
textDelta(delta)   == [type |-> "response.text.delta", delta |-> delta]
responseDone(output) == [type |-> "response.done", response |-> [output |-> output]]
apiError           == [type |-> "error", error |-> "api"]
responseCreated    == [type |-> "response.created"]

\* the output of a response that carries text
textOutput(text) == <<[content |-> <<[type |-> "text", text |-> text]>>]>>

\* Array.prototype.find(c => c.type === 'text'): <<>> when there is none
find(content) ==
  LET texts == {i \in 1..Len(content) : content[i].type = "text"}
  IN  IF texts = {} THEN <<>>
      ELSE <<content[CHOOSE i \in texts : \A j \in texts : i <= j]>>

\* the Deduplicator: a concept overlaps when it contains, or is contained
\* in, a memory of the user, letter case aside
overlaps(objects, userId, concept) ==
  \E i \in 1..Len(objects) :
    /\ objects[i].properties.userId = userId
    /\ \/ includes(toLowerCase(objects[i].properties.content), toLowerCase(concept))
       \/ includes(toLowerCase(concept), toLowerCase(objects[i].properties.content))

\* the naive keyword extraction the extractor falls back to
keywords(userMessage) == <<userMessage>>

\* the Concept Extractor: extraction is <<>> when the model's answer does not
\* parse as JSON and <<concepts>> when it does; each concept that overlaps no
\* memory of the user is inserted, and a failed insert throws
RECURSIVE storeConcepts(_, _, _, _, _, _)
storeConcepts(objects, concepts, userId, conversationId, now, insertOk) ==
  IF concepts = <<>> THEN [threw |-> FALSE, store |-> objects]
  ELSE IF overlaps(objects, userId, Head(concepts))
  THEN storeConcepts(objects, Tail(concepts), userId, conversationId, now, insertOk)
  ELSE IF ~insertOk THEN [threw |-> TRUE, store |-> objects]
  ELSE storeConcepts(
         insert(objects,
                [content        |-> Head(concepts),
                 timestamp      |-> now,
                 userId         |-> userId,
                 conversationId |-> conversationId,
                 memoryType     |-> "context",
                 importance     |-> DefaultImportance],
                InUse \cup {objects[i].uuid : i \in 1..Len(objects)}),
         Tail(concepts), userId, conversationId, now, insertOk)

extractConceptualMemories(objects, userMessage, userId, conversationId, extraction, now, insertOk) ==
  storeConcepts(objects,
                IF extraction = <<>> THEN keywords(userMessage) ELSE extraction[1],
                userId, conversationId, now, insertOk)

\* the listener returning right after the extraction, before it tells the
\* client that the response is complete
onUpstreamMessageReturns(session, event, objects, extraction, now, insertOk) ==
  CASE event.type = "session.created" ->
         [relayed |-> <<[type |-> "session_ready"]>>, store |-> objects]
    [] event.type = "response.text.delta" ->
         [relayed |-> <<[type |-> "text_delta", delta |-> event.delta]>>, store |-> objects]
    [] event.type = "response.done" ->
         LET output == event.response.output
             textContent == IF Len(output) > 0 /\ Len(output[1].content) > 0
                            THEN find(output[1].content) ELSE <<>>
             extracts == textContent # <<>> /\ session.lastUserMessage # <<>>
             extracted ==
               IF extracts
               THEN extractConceptualMemories(objects, session.lastUserMessage[1],
                                              session.userId, session.conversationId,
                                              extraction, now, insertOk)
               ELSE [threw |-> FALSE, store |-> objects]
         IN  IF extracted.threw
             THEN [relayed |-> <<[type |-> "error", error |-> "Failed to process event"]>>,
                   store |-> extracted.store]
             ELSE IF extracts
             THEN [relayed |-> <<>>, store |-> extracted.store]
             ELSE [relayed |-> <<[type |-> "response_complete", response |-> event.response]>>,
                   store |-> extracted.store]
    [] event.type = "error" ->
         [relayed |-> <<[type |-> "error", error |-> event.error]>>, store |-> objects]
    [] OTHER -> [relayed |-> <<event>>, store |-> objects]

\* setupEventHandlers: the listener of session.ws.on('message'); the result
\* is what it passes to onMessage and the collection afterwards
onUpstreamMessage(session, event, objects, extraction, now, insertOk) ==
  CASE event.type = "session.created" ->
         [relayed |-> <<[type |-> "session_ready"]>>, store |-> objects]
    [] event.type = "response.text.delta" ->
         [relayed |-> <<[type |-> "text_delta", delta |-> event.delta]>>, store |-> objects]
    [] event.type = "response.done" ->
         LET output == event.response.output
             textContent == IF Len(output) > 0 /\ Len(output[1].content) > 0
                            THEN find(output[1].content) ELSE <<>>
             extracted ==
               IF textContent # <<>> /\ session.lastUserMessage # <<>>
               THEN extractConceptualMemories(objects, session.lastUserMessage[1],
                                              session.userId, session.conversationId,
                                              extraction, now, insertOk)
               ELSE [threw |-> FALSE, store |-> objects]
         IN  IF extracted.threw
             THEN [relayed |-> <<[type |-> "error", error |-> "Failed to process event"]>>,
                   store |-> extracted.store]
             ELSE [relayed |-> <<[type |-> "response_complete", response |-> event.response]>>,
                   store |-> extracted.store]
    [] event.type = "error" ->
         [relayed |-> <<[type |-> "error", error |-> event.error]>>, store |-> objects]
    [] OTHER -> [relayed |-> <<event>>, store |-> objects]

\* ws.send of each of these on a client's socket: nothing is delivered once
\* it has closed
clientSend(sockets, w, data) ==
  IF sockets[w].state = "open"
  THEN [sockets EXCEPT ![w].received = @ \o data]
  ELSE sockets

\* EventEmitter.emit('message'): the listeners run in the order registered
RECURSIVE emit(_, _, _, _, _, _, _)
emit(listeners, event, objects, sockets, extraction, now, insertOk) ==
  IF listeners = <<>> THEN [store |-> objects, clients |-> sockets]
  ELSE LET handled == onUpstreamMessage(sessions[Head(listeners).sessionId], event,
                                        objects, extraction, now, insertOk)
       IN  emit(Tail(listeners), event, handled.store,
                clientSend(sockets, Head(listeners).client, handled.relayed),
                extraction, now, insertOk)

\* the upstream socket u delivers an event of the API to the server
UpstreamMessage(u, event, extraction, insertOk) ==
  /\ u \in DOMAIN upstream
  /\ upstream[u].state = "open"
  /\ LET emitted == emit(upstream[u].listeners, event, store, clients,
                         extraction, clock, insertOk)
     IN  /\ store' = emitted.store
         /\ clients' = emitted.clients
  /\ upstream' = [upstream EXCEPT ![u].emitted = Append(@, event)]
  /\ UNCHANGED <<sessions, pending, reply, collectionExists, clock>>

\* ------------------------------------------- ChatPage and useRealtimeChat
\* String.prototype.trim: the text without the blanks at its ends
RECURSIVE trimStart(_)
trimStart(text) ==
  IF text # <<>> /\ Head(text) = " " THEN trimStart(Tail(text)) ELSE text

RECURSIVE trimEnd(_)
trimEnd(text) ==
  IF text # <<>> /\ text[Len(text)] = " "
  THEN trimEnd(SubSeq(text, 1, Len(text) - 1)) ELSE text

trim(text) == trimEnd(trimStart(text))

\* the page after mounting: standard mode, no session, nothing attached;
\* outbox holds the requests the page has sent and the server has not yet seen,
\* messages and currentResponse are those of useRealtimeChat, and handled
\* counts the events of its WebSocket that onmessage has taken; text is the
\* message state of ChatInput, regularMessages and isChatLoading are the
\* messages and isLoading of useChat
MountedPage ==
  [mounted          |-> TRUE,
   userId           |-> "u2",
   useRealtime      |-> FALSE,
   attachedMemories |-> <<>>,
   sessionId        |-> NoId,
   isLoading        |-> FALSE,
   isConnected      |-> FALSE,
   ws               |-> 0,
   outbox           |-> <<>>,
   messages         |-> <<>>,
   currentResponse  |-> <<>>,
   handled          |-> 0,
   text             |-> <<>>,
   conversationId   |-> 1,
   regularMessages  |-> <<>>,
   isChatLoading    |-> FALSE]

fetch(p, request) == [p EXCEPT !.outbox = Append(@, request)]

\* useRealtimeChat.createSession, until the response is awaited
hookCreateSession(p, selectedMemories) ==
  fetch([p EXCEPT !.isLoading = TRUE],
        [op |-> "POST /api/realtime/session", userId |-> p.userId,
         selectedMemories |-> selectedMemories])

\* useRealtimeChat.updateMemories
updateMemories(p, selectedMemories) ==
  IF p.sessionId = NoId THEN p
  ELSE fetch(p, [op |-> "POST /api/realtime/update-memories",
                 sessionId |-> p.sessionId, selectedMemories |-> selectedMemories])

\* the RealtimeMessage sendMessage adds for the user's text
userMessage(content) == [role |-> "user", content |-> content, isStreaming |-> FALSE]

\* useRealtimeChat.sendMessage; attached is what the page passed with the
\* message, which the hook does not take
hookSendMessage(p, message, attached) ==
  IF p.sessionId = NoId \/ trim(message) = <<>> THEN p
  ELSE fetch([p EXCEPT !.messages = Append(@, userMessage(trim(message))),
                       !.currentResponse = <<>>],
             [op |-> "POST /api/realtime/message", sessionId |-> p.sessionId,
              message |-> trim(message), attached |-> attached])

\* useRealtimeChat.handleRealtimeEvent
handleRealtimeEvent(p, eventData) ==
  CASE eventData.type = "text_delta" ->
         LET current == Append(p.currentResponse, eventData.delta)
             n       == Len(p.messages)
         IN  IF n > 0 /\ p.messages[n].role = "assistant" /\ p.messages[n].isStreaming
             THEN [p EXCEPT !.currentResponse = current,
                            !.messages[n].content = current]
             ELSE [p EXCEPT !.currentResponse = current,
                            !.messages = Append(@, [role |-> "assistant", content |-> current,
                                                    isStreaming |-> TRUE])]
    [] eventData.type = "response_complete" ->
         [p EXCEPT !.currentResponse = <<>>,
                   !.messages = [i \in 1..Len(@) |-> [@[i] EXCEPT !.isStreaming = FALSE]]]
    [] OTHER -> p

\* useRealtimeChat.clearMessages
clearMessages(p) == [p EXCEPT !.messages = <<>>, !.currentResponse = <<>>]

\* ChatPage: the effect that creates the realtime session
sessionEffect(p) ==
  IF p.useRealtime /\ p.sessionId = NoId /\ ~p.isLoading
  THEN hookCreateSession(p, <<>>)
  ELSE p

\* ChatPage: the effect that sends the attached memories to the session
memoriesEffect(p) ==
  IF p.useRealtime /\ p.isConnected /\ p.sessionId # NoId /\ Len(p.attachedMemories) > 0
  THEN updateMemories(p, p.attachedMemories)
  ELSE p

\* the effects React runs after a render: each runs when one of its
\* dependencies was set; changed names the state that was set
render(p, changed) ==
  LET first == IF changed \cap {"useRealtime", "sessionId", "isLoading"} # {}
               THEN sessionEffect(p) ELSE p
  IN  IF changed \cap {"attachedMemories", "isConnected", "useRealtime", "sessionId"} # {}
      THEN memoriesEffect(first) ELSE first

\* ChatPage.handleToggleMode
handleToggleMode(p) ==
  render([p EXCEPT !.useRealtime = ~p.useRealtime, !.attachedMemories = <<>>],
         {"useRealtime", "attachedMemories"})

\* the body of handleAttachMemory: seen is the attachedMemories of the render
\* whose handler runs, and the update is applied to the state as it is by then
attach(p, seen, memory) ==
  IF \E i \in 1..Len(seen) : seen[i].additional.id = memory.additional.id
  THEN p
  ELSE [p EXCEPT !.attachedMemories = Append(@, memory)]

\* ChatPage.handleAttachMemory, React rendering after the event
handleAttachMemory(p, memory) ==
  LET attached == attach(p, p.attachedMemories, memory)
  IN  IF attached = p THEN p ELSE render(attached, {"attachedMemories"})

\* handleAttachMemory called twice for a memory before React renders again:
\* both calls are those of the same render
handleAttachMemoryTwice(p, memory) ==
  LET attached == attach(attach(p, p.attachedMemories, memory), p.attachedMemories, memory)
  IN  IF attached = p THEN p ELSE render(attached, {"attachedMemories"})

\* setAttachedMemories(prev => prev.filter(m => m._additional.id !== memory._additional.id))
detached(p, memory) ==
  [p EXCEPT !.attachedMemories =
     SelectSeq(@, LAMBDA m : m.additional.id # memory.additional.id)]

\* ChatPage.handleDetachMemory
handleDetachMemory(p, memory) == render(detached(p, memory), {"attachedMemories"})

\* useChat.sendMessage, until the response is awaited
chatSendMessage(p, content, selectedMemories, conversationId) ==
  IF trim(content) = <<>> THEN p
  ELSE fetch([p EXCEPT !.regularMessages =
                         Append(@, [role |-> "user", content |-> trim(content),
                                    attachedMemories |-> selectedMemories]),
                       !.isChatLoading = TRUE],
             [op |-> "POST /api/chat", message |-> trim(content), userId |-> p.userId,
              conversationId |-> conversationId, selectedMemories |-> selectedMemories])

\* useChat.sendMessage, after the response
onChatResponse(p, response) ==
  IF response.status = 200
  THEN [p EXCEPT !.regularMessages =
                   Append(@, [role |-> "assistant", content |-> response.body.response,
                              usedMemories |-> response.body.usedMemories]),
                 !.isChatLoading = FALSE]
  ELSE [p EXCEPT !.isChatLoading = FALSE]

\* useChat.clearMessages
chatClearMessages(p) == [p EXCEPT !.regularMessages = <<>>]

\* ChatPage: messages, as shown
Shown(p) == IF p.useRealtime THEN p.messages ELSE p.regularMessages

\* ChatPage: isLoading, as passed to ChatInput
isLoading(p) == IF p.useRealtime THEN p.isLoading ELSE p.isChatLoading

\* ChatPage.handleSendMessage
handleSendMessage(p, message, memories) ==
  IF p.useRealtime
  THEN hookSendMessage(p, message, memories)
  ELSE chatSendMessage(p, message, memories, p.conversationId)

\* ChatInput.handleTextareaChange
handleTextareaChange(p, value) == [p EXCEPT !.text = value]

\* ChatPage.handleClearChat
handleClearChat(p) ==
  render([(IF p.useRealtime THEN clearMessages(p) ELSE chatClearMessages(p))
            EXCEPT !.attachedMemories = <<>>],
         {"attachedMemories"})

\* ChatInput.handleSubmit: the message is sent with the attached memories,
\* which are then detached one by one; React renders once, after the handler
RECURSIVE detachAll(_, _)
detachAll(p, memories) ==
  IF memories = <<>> THEN p
  ELSE detachAll(detached(p, Head(memories)), Tail(memories))

handleSubmit(p) ==
  IF trim(p.text) = <<>> \/ isLoading(p) THEN p
  ELSE render(detachAll([handleSendMessage(p, trim(p.text), p.attachedMemories)
                           EXCEPT !.text = <<>>],
                        p.attachedMemories),
              IF p.attachedMemories = <<>> THEN {} ELSE {"attachedMemories"})

\* the response to POST /api/realtime/session arrives: the hook keeps the
\* session id and opens its WebSocket
onSessionResponse(p, ok, sessionId) ==
  IF ok
  THEN render(fetch([p EXCEPT !.sessionId = sessionId, !.isLoading = FALSE],
                    [op |-> "connect", sessionId |-> sessionId]),
              {"sessionId", "isLoading"})
  ELSE render([p EXCEPT !.isLoading = FALSE], {"isLoading"})

\* ws.onopen of the hook's WebSocket w: the hook joins the session
onopen(p, w, sessionId) ==
  render(fetch([p EXCEPT !.isConnected = TRUE, !.ws = w],
               [op |-> "join_session", sessionId |-> sessionId]),
         {"isConnected"})

\* the outbox without its k-th request
Without(outbox, k) == SubSeq(outbox, 1, k - 1) \o SubSeq(outbox, k + 1, Len(outbox))

\* ----------------------------------------------------- the page's events
PageToggleMode ==
  /\ page' = handleToggleMode(page)
  /\ UNCHANGED <<memVars, rtVars, reply>>

PageAttachMemory(memory) ==
  /\ page' = handleAttachMemory(page, memory)
  /\ UNCHANGED <<memVars, rtVars, reply>>

\* two drops of the same memory handled before the page renders again
PageAttachMemoryTwice(memory) ==
  /\ page' = handleAttachMemoryTwice(page, memory)
  /\ UNCHANGED <<memVars, rtVars, reply>>

PageDetachMemory(memory) ==
  /\ page' = handleDetachMemory(page, memory)
  /\ UNCHANGED <<memVars, rtVars, reply>>

PageType(value) ==
  /\ page' = handleTextareaChange(page, value)
  /\ UNCHANGED <<memVars, rtVars, reply>>

PageSubmit ==
  /\ page' = handleSubmit(page)
  /\ UNCHANGED <<memVars, rtVars, reply>>

PageClearChat ==
  /\ page' = handleClearChat(page)
  /\ UNCHANGED <<memVars, rtVars, reply>>

\* ws.onmessage of the hook's WebSocket: the next event the server has sent
\* on it is parsed and handled
PageReceive ==
  /\ page.ws \in DOMAIN clients
  /\ page.handled < Len(clients[page.ws].received)
  /\ page' = [handleRealtimeEvent(page, clients[page.ws].received[page.handled + 1])
               EXCEPT !.handled = @ + 1]
  /\ UNCHANGED <<memVars, rtVars, reply>>

\* the server receives the k-th request in flight
\* (a chat request is answered at once: completion is what the model returns)
PageDeliver(k, completion) ==
  /\ k \in 1..Len(page.outbox)
  /\ LET request == page.outbox[k]
         rest    == [page EXCEPT !.outbox = Without(@, k)]
     IN  CASE request.op = "POST /api/chat" ->
                /\ PostChat(request.message, request.userId, request.conversationId,
                            request.selectedMemories, NoDist(store), TRUE, completion, 0, TRUE)
                /\ page' = onChatResponse(rest, reply')
           [] request.op = "POST /api/realtime/session" ->
                /\ PostRealtimeSession(request.userId, request.selectedMemories)
                /\ page' = rest
           [] request.op = "POST /api/realtime/update-memories" ->
                /\ PostRealtimeUpdateMemories(request.sessionId, request.selectedMemories)
                /\ page' = rest
           [] request.op = "POST /api/realtime/message" ->
                /\ PostRealtimeMessage(request.sessionId, request.message)
                /\ page' = rest
           [] request.op = "connect" ->
                /\ WsConnection
                /\ page' = onopen(rest, Len(clients) + 1, request.sessionId)
           [] request.op = "join_session" ->
                /\ WsJoinSession(page.ws, request.sessionId)
                /\ page' = rest

\* the upstream socket of the page's createSession opens and the page gets
\* the session id
PageSessionCreated(p) ==
  /\ UpstreamOpen(p)
  /\ page' = onSessionResponse(page, TRUE, p.sessionId)

\* the upstream socket of the page's createSession fails, the route answers
\* 500 and the hook's createSession throws
PageSessionFailed(p) ==
  /\ UpstreamError(p)
  /\ page' = onSessionResponse(page, FALSE, NoId)

\* --------------------------------------- SpecRT: the realtime session manager
RTUsers == {"u1"}

\* the session ids a request can carry: those of the map and an unknown one
SessionIds == DOMAIN sessions \cup {uuidv4(InUse)}

\* the sessions whose upstream socket can take another event
Sendable(sessionId) ==
  sessionId \in DOMAIN sessions => Len(upstream[sessions[sessionId].ws].sent) < MaxSent

\* the selectedMemories lists a realtime client sends
Attached == UNION {[1..n -> Listed(store)] : n \in 0..MaxAttached}

DoPostRealtimeSession ==
  /\ UNCHANGED page
  /\ \E userId \in RTUsers \cup {NoUser} :
       IF userId = NoUser
       THEN PostRealtimeSession(userId, <<>>)
       ELSE /\ Len(upstream) < MaxSessions
            /\ \E selectedMemories \in Attached :
                 PostRealtimeSession(userId, selectedMemories)

DoUpstreamOpen == UNCHANGED page /\ \E p \in pending : UpstreamOpen(p)

DoUpstreamError == UNCHANGED page /\ \E p \in pending : UpstreamError(p)

DoPostRealtimeMessage ==
  /\ UNCHANGED page
  /\ \E sessionId \in SessionIds \cup {NoId}, message \in Messages \cup {NoText} :
       /\ Sendable(sessionId)
       /\ PostRealtimeMessage(sessionId, message)

DoPostRealtimeUpdateMemories ==
  /\ UNCHANGED page
  /\ \E sessionId \in SessionIds \cup {NoId}, selectedMemories \in Attached :
       /\ Sendable(sessionId)
       /\ PostRealtimeUpdateMemories(sessionId, selectedMemories)

DoWsConnection ==
  /\ UNCHANGED page
  /\ Len(clients) < MaxClients
  /\ WsConnection

DoWsJoinSession ==
  /\ UNCHANGED page
  /\ \E w \in DOMAIN clients, sessionId \in SessionIds :
       /\ Len(clients[w].received) < MaxReceived
       /\ WsJoinSession(w, sessionId)

DoWsClose == UNCHANGED page /\ \E w \in DOMAIN clients : WsClose(w)

NextRT ==
  \/ DoPostRealtimeSession
  \/ DoUpstreamOpen
  \/ DoUpstreamError
  \/ DoPostRealtimeMessage
  \/ DoPostRealtimeUpdateMemories
  \/ DoWsConnection
  \/ DoWsJoinSession
  \/ DoWsClose

\* one memory is in the collection for the clients to select
InitRT ==
  /\ store = Filled(1)
  /\ collectionExists = TRUE
  /\ clock = 0
  /\ reply = NoReply
  /\ sessions = << >>
  /\ upstream = <<>>
  /\ pending = {}
  /\ clients = <<>>
  /\ page = NoPage

SpecRT == InitRT /\ [][NextRT]_vars

\* ------------------------------------- SpecRelay: the relay of API events
\* the n-th piece of text that socket u streams, named by socket and position
deltaText(u, n) == <<u, n>>

\* the API answers a response.create with text deltas and one response.done
Answering(u) ==
  Count(upstream[u].sent, "response.create") > Count(upstream[u].emitted, "response.done")

\* the events the API can emit next on socket u
Emittable(u) ==
  (IF upstream[u].emitted = <<>> THEN {sessionCreated} ELSE {})
    \cup (IF Answering(u)
          THEN {textDelta(deltaText(u, Len(upstream[u].emitted) + 1)),
                responseDone(textOutput(<<"x">>)),
                responseDone(<<>>),
                apiError}
          ELSE {responseCreated})

\* the answers of the extraction model: not JSON, or a list of concepts
Extractions == {<<>>, << <<<<"H">>>> >>}

\* whether the listener of a session extracts memories from the event
Extracts(event, s) ==
  /\ event.type = "response.done"
  /\ Len(event.response.output) > 0
  /\ find(event.response.output[1].content) # <<>>
  /\ sessions[s].lastUserMessage # <<>>

RelayCreate ==
  /\ UNCHANGED page
  /\ Len(upstream) < MaxSessions
  /\ PostRealtimeSession("u1", <<>>)

RelayOpen == UNCHANGED page /\ \E p \in pending : UpstreamOpen(p)

RelayConnect ==
  /\ UNCHANGED page
  /\ Len(clients) < MaxClients
  /\ WsConnection

Joins(w) == Count(clients[w].received, "joined")

RelayJoin ==
  /\ UNCHANGED page
  /\ \E w \in DOMAIN clients, sessionId \in DOMAIN sessions :
       /\ Joins(w) < MaxJoins
       /\ WsJoinSession(w, sessionId)

RelaySend ==
  /\ UNCHANGED page
  /\ \E sessionId \in DOMAIN sessions :
       /\ Turns < MaxTurns
       /\ PostRealtimeMessage(sessionId, <<"h">>)

RelayEmit ==
  /\ UNCHANGED page
  /\ \E u \in DOMAIN upstream :
       /\ Emitted < MaxEmitted
       /\ \E event \in Emittable(u) :
            IF \E k \in 1..Len(upstream[u].listeners) :
                 Extracts(event, upstream[u].listeners[k].sessionId)
            THEN \E extraction \in Extractions, insertOk \in BOOLEAN :
                   UpstreamMessage(u, event, extraction, insertOk)
            ELSE UpstreamMessage(u, event, <<>>, TRUE)

NextRelay ==
  \/ RelayCreate
  \/ RelayOpen
  \/ RelayConnect
  \/ RelayJoin
  \/ RelaySend
  \/ RelayEmit

SpecRelay == InitRT /\ [][NextRelay]_vars

\* ------------------------------------ SpecPage: one chat page and the server
\* what the user types: a message, and blanks

PageTexts == {<<" ", "h">>, <<" ">>}

\* the memories the page's memory panel shows
PanelMemories == Listed(OwnedBy(store, page.userId))

\* the page may send another request
CanFetch == Len(page.outbox) < MaxOutbox

DoPageToggleMode ==
  /\ CanFetch
  /\ PageToggleMode

DoPageAttachMemory ==
  /\ CanFetch
  /\ \E memory \in PanelMemories : PageAttachMemory(memory)

DoPageDetachMemory ==
  /\ CanFetch
  /\ \E memory \in Range(page.attachedMemories) : PageDetachMemory(memory)

DoPageType ==
  /\ page.useRealtime
  /\ \E value \in PageTexts : PageType(value)

DoPageSubmit ==
  /\ CanFetch
  /\ page.useRealtime
  /\ PageSubmit

\* what the completion model answers to a request: nothing unless it is a chat
Answers(request) == IF request.op = "POST /api/chat" THEN Completions ELSE {<<>>}

DoPageDeliver ==
  \E k \in 1..Len(page.outbox) :
    /\ page.outbox[k].op \in {"POST /api/realtime/update-memories",
                              "POST /api/realtime/message"}
         => (page.outbox[k].sessionId \in DOMAIN sessions
               => Len(upstream[sessions[page.outbox[k].sessionId].ws].sent) < MaxPageSent)
    /\ \E completion \in Answers(page.outbox[k]) : PageDeliver(k, completion)

DoPageSessionCreated == \E p \in pending : PageSessionCreated(p)

DoPageSessionFailed ==
  /\ CanFetch
  /\ Len(upstream) < MaxSessions
  /\ \E p \in pending : PageSessionFailed(p)

NextPage ==
  \/ DoPageToggleMode
  \/ DoPageAttachMemory
  \/ DoPageDetachMemory
  \/ DoPageType
  \/ DoPageSubmit
  \/ DoPageDeliver
  \/ DoPageSessionCreated
  \/ DoPageSessionFailed

\* the page is mounted and its user has stored a memory
InitPage ==
  /\ store = Filled(1)
  /\ collectionExists = TRUE
  /\ clock = 0
  /\ reply = NoReply
  /\ sessions = << >>
  /\ upstream = <<>>
  /\ pending = {}
  /\ clients = <<>>
  /\ page = MountedPage

SpecPage == InitPage /\ [][NextPage]_vars

\* ======================================================================
\* Properties
\* ======================================================================
IsReply(op, status) == reply.op = op /\ reply.status = status

\* C1. Every memory returned by searchMemories(query, u, limit) and by
\* getAllMemories(u) has userId u: no memory of another user is returned.
C1_ScopedResults ==
  (IsReply("GET /api/memories", 200) \/ IsReply("POST /api/memories/search", 200))
    => \A m \in Range(reply.body) : m.userId = reply.request.userId

\* a search returned memories while another user's memory was in the collection
C1_Witness ==
  /\ IsReply("POST /api/memories/search", 200)
  /\ reply.body # <<>>
  /\ \E i \in 1..Len(store) : store[i].properties.userId # reply.request.userId

\* C2. In generateResponse for a request of user u, every memory written
\* into the system prompt and returned in usedMemories has userId u, whether
\* it comes from the search or from the request's selectedMemories.
C2_UsedMemoriesOwned ==
  IsReply("POST /api/chat", 200)
    => \A m \in Range(reply.body.usedMemories) : m.userId = reply.request.userId

\* C3. Listing is independent of other users' data: getAllMemories(u) returns
\* what it returns on the collection that holds the memories of u alone.
C3_ListingIndependent ==
  IsReply("GET /api/memories", 200)
    => reply.body = getAllMemories(OwnedBy(store, reply.request.userId),
                                   reply.request.userId, TRUE)

\* C4. generateResponse uses the selected memories as they are, without a
\* search, when there are any; otherwise it uses the result of
\* searchMemories(message, userId, 3), at most 3 memories.
C4_Step ==
  (reply'.op = "POST /api/chat" /\ reply'.status = 200) =>
    IF Len(reply'.request.selectedMemories) > 0
    THEN /\ reply'.body.usedMemories = reply'.request.selectedMemories
         /\ ~reply'.searched
    ELSE /\ reply'.searched
         /\ Len(reply'.body.usedMemories) <= 3
         /\ \E dist \in BulkDistances(store) :
              reply'.body.usedMemories =
                searchMemories(store, dist, reply'.request.userId, 3, TRUE)

C4_MemoriesOfTurn == [][C4_Step]_vars

\* a search of a user with more than 3 memories returned 3 of them
C4_Witness ==
  /\ IsReply("POST /api/chat", 200)
  /\ reply.searched
  /\ Len(reply.body.usedMemories) = ChatSearchLimit
  /\ Len(OwnedBy(store, reply.request.userId)) > ChatSearchLimit + 1

\* C5. After any sequence of chat turns of one user, that user has no two
\* stored memories of which one's content is a case-insensitive substring of
\* the other's.
IsTurn(content) == content # <<>> /\ content[1] = "User: "

C5_NoOverlap ==
  \A i, j \in 1..Len(store) :
    (/\ i # j
     /\ store[i].properties.userId = store[j].properties.userId
     /\ IsTurn(store[i].properties.content)
     /\ IsTurn(store[j].properties.content))
      => ~includes(toLowerCase(store[i].properties.content),
                   toLowerCase(store[j].properties.content))

\* C6. Once stored, a memory is never changed or removed by an operation of
\* the server (chat, store, search, listing, server start).
C6_NeverUpdatedOrDeleted ==
  [][\A i \in 1..Len(store) : \E j \in 1..Len(store') : store'[j] = store[i]]_vars

\* C7. A POST /api/chat answered with success has stored a memory of that turn
\* with the request's userId and the request's conversationId, or a newly
\* generated conversationId when the request has none.
StoredUnder(i, userId, conversationId) ==
  /\ store[i].properties.userId = userId
  /\ IF conversationId # NoId
     THEN store[i].properties.conversationId = conversationId
     ELSE /\ store[i].properties.conversationId \notin ClientConversationIds \cup {NoId}
          /\ \A j \in 1..Len(store) :
               j # i => store[j].properties.conversationId # store[i].properties.conversationId

C7_SuccessMeansStored ==
  IsReply("POST /api/chat", 200) =>
    \E i \in 1..Len(store) :
      /\ store[i].properties.content = Turn(reply.request.message, reply.body.response)
      /\ StoredUnder(i, reply.request.userId, reply.request.conversationId)

\* a chat without conversationId succeeded on a collection that held a memory
C7_Witness ==
  /\ IsReply("POST /api/chat", 200)
  /\ reply.request.conversationId = NoId
  /\ Len(store) > 1

\* C8. Each stored memory has a non-empty userId and a non-empty
\* conversationId; a request without userId stores nothing; a request without
\* conversationId stores the memory under a newly generated conversationId.
IsStoreRequest(r) == r.op = "POST /api/memories" \/ r.op = "POST /api/chat"

C8_Owned ==
  \A i \in 1..Len(store) :
    /\ store[i].properties.userId # NoUser
    /\ store[i].properties.conversationId # NoId

C8_Step ==
  IsStoreRequest(reply') =>
    /\ reply'.request.userId = NoUser => store' = store
    /\ (reply'.status = 200 /\ reply'.request.conversationId = NoId) =>
         /\ Len(store') = Len(store) + 1
         /\ store'[Len(store')].properties.conversationId
              \notin ClientConversationIds \cup {NoId}
                       \cup {store[i].properties.conversationId : i \in 1..Len(store)}

C8_OneUserOneConversation == []C8_Owned /\ [][C8_Step]_vars

\* a memory was stored by a request that carried no conversationId
C8_Witness ==
  /\ IsReply("POST /api/memories", 200)
  /\ reply.request.conversationId = NoId
  /\ Len(store) > 1

\* C9. When the client socket that joined session S closes, S is removed from
\* the sessions map and its upstream socket is closed.
C9_DiscardedOnDisconnect ==
  \A u \in DOMAIN upstream : \A k \in 1..Len(upstream[u].listeners) :
    clients[upstream[u].listeners[k].client].state = "closed"
      => /\ upstream[u].listeners[k].sessionId \notin DOMAIN sessions
         /\ upstream[u].state = "closed"

\* C10. A session id is in the map only after its own upstream socket has
\* opened, keeps that socket for its whole life, shares it with no other
\* session id, and is in the map when createSession returns it.
C10_Sockets ==
  /\ \A s \in DOMAIN sessions :
       /\ sessions[s].ws \in DOMAIN upstream
       /\ upstream[sessions[s].ws].state = "open"
  /\ \A s, t \in DOMAIN sessions : s # t => sessions[s].ws # sessions[t].ws
  /\ \A p \in pending : p.sessionId \notin DOMAIN sessions
  /\ IsReply("POST /api/realtime/session", 200) => reply.body.sessionId \in DOMAIN sessions

C10_Step ==
  \A s \in DOMAIN sessions :
    s \in DOMAIN sessions' => sessions'[s].ws = sessions[s].ws

C10_OneSocketPerSession == []C10_Sockets /\ [][C10_Step]_vars

\* createSession returned the second of two sessions
C10_Witness ==
  /\ IsReply("POST /api/realtime/session", 200)
  /\ Cardinality(DOMAIN sessions) = 2

\* client w has been told that it joined session s
Joined(w, s) ==
  \E i \in 1..Len(clients[w].received) :
    /\ clients[w].received[i].type = "joined"
    /\ clients[w].received[i].sessionId = s

\* the text socket u has streamed, and the text of u relayed to client w
Streamed(u) ==
  LET deltas == SelectSeq(upstream[u].emitted, LAMBDA e : e.type = "response.text.delta")
  IN  [i \in 1..Len(deltas) |-> deltas[i].delta]

RelayedText(w, u) ==
  LET deltas == SelectSeq(clients[w].received,
                          LAMBDA e : e.type = "text_delta" /\ e.delta[1] = u)
  IN  [i \in 1..Len(deltas) |-> deltas[i].delta]

IsSubsequence(a, b) ==
  \E f \in [1..Len(a) -> 1..Len(b)] :
    /\ \A i \in 1..Len(a) : b[f[i]] = a[i]
    /\ \A i, j \in 1..Len(a) : i < j => f[i] < f[j]

\* C11. Every text delta the upstream socket of a session emits in answer to
\* an accepted message is relayed, in the order emitted, to the client socket
\* of the session, whenever the message was sent (before the join or after).
C11_DeltasRelayed ==
  \A w \in DOMAIN clients, s \in DOMAIN sessions :
    Joined(w, s) => IsSubsequence(Streamed(sessions[s].ws), RelayedText(w, sessions[s].ws))

\* C12. An event of the upstream socket of session S goes only to the client
\* sockets that joined S: a client that joined other sessions only receives
\* nothing when the socket of S emits.
C12_Step ==
  \A u \in DOMAIN upstream :
    upstream'[u].emitted # upstream[u].emitted =>
      \A w \in DOMAIN clients :
        (\A s \in DOMAIN sessions : sessions[s].ws = u => ~Joined(w, s))
          => clients'[w] = clients[w]

C12_OnlyToJoined == [][C12_Step]_vars

\* a client joined one session before any event, and the socket of another
\* session has emitted since
C12_Witness ==
  \E w \in DOMAIN clients, s, t \in DOMAIN sessions :
    /\ s # t
    /\ Joined(w, t)
    /\ ~Joined(w, s)
    /\ \E k \in 1..Len(upstream[sessions[t].ws].listeners) :
         /\ upstream[sessions[t].ws].listeners[k].client = w
         /\ upstream[sessions[t].ws].listeners[k].since = 0
    /\ upstream[sessions[s].ws].emitted # <<>>

\* the instructions of the session.update sent last in a log of sent events
LastInstructions(sent) ==
  LET updates == SelectSeq(sent, LAMBDA e : e.type = "session.update")
  IN  updates[Len(updates)].instructions

\* the instructions that list exactly these memories
Listing(memories) == {createInstructions(memories), updateInstructions(memories)}

\* C13. In realtime mode, when the upstream receives conversation.item.create
\* for a message of the page, the instructions sent to it last list exactly
\* the memories attached to that message: none when none was attached.
C13_Step ==
  \A k \in 1..Len(page.outbox) :
    (/\ page.outbox[k].op = "POST /api/realtime/message"
     /\ page'.outbox = Without(page.outbox, k)
     /\ reply'.op = "POST /api/realtime/message"
     /\ reply'.status = 200)
      => LastInstructions(upstream'[sessions[page.outbox[k].sessionId].ws].sent)
           \in Listing(page.outbox[k].attached)

C13_AttachedMemoriesInjected == [][C13_Step]_vars

\* socket u has just emitted an event
Emits(u) == upstream'[u].emitted # upstream[u].emitted

\* what client w has just been sent
Fresh(w) == SubSeq(clients'[w].received, Len(clients[w].received) + 1, Len(clients'[w].received))

\* the clients that listen to socket u
Listening(u) == {upstream[u].listeners[k].client : k \in 1..Len(upstream[u].listeners)}

\* the extractor has just stored the keywords it falls back to
StoredFallback ==
  /\ Len(store') = Len(store) + 1
  /\ \E m \in Messages : <<store'[Len(store')].properties.content>> = keywords(m)

\* C14. A turn whose extraction answer is not JSON completes normally: when
\* the extractor has fallen back to the keywords and stored them, every client
\* of the session is sent response_complete and no error event.
C14_Step ==
  \A u \in DOMAIN upstream :
    (Emits(u) /\ StoredFallback) =>
      \A w \in Listening(u) :
        /\ Fresh(w) # <<>>
        /\ \A i \in 1..Len(Fresh(w)) : Fresh(w)[i].type = "response_complete"

C18_Step ==
  \A u \in DOMAIN upstream :
    (Emits(u) /\ upstream'[u].emitted[Len(upstream'[u].emitted)].type = "response.done") =>
      \A w \in Listening(u) :
        Count(clients'[w].received, "response_complete")
          > Count(clients[w].received, "response_complete")

C18_DoneMeansComplete == [][C18_Step]_vars

\* C19. An event the upstream socket of a session emits is delivered to a
\* client socket at most once, however many join_session messages the client
\* sent for the session.
C19_Step ==
  \A u \in DOMAIN upstream :
    Emits(u) => \A w \in DOMAIN clients : Len(Fresh(w)) <= 1

C19_AtMostOnce == [][C19_Step]_vars

\* ----------------------------------------------------------------------
\* SpecAgent: the realtime agent called directly, attached memories included
\* ----------------------------------------------------------------------
MaxAgentSent == 5

AgentTexts == {<<"h">>, <<"i">>}

\* a call of RealtimeAgent.sendMessage; reply records the call and how it ended
SendMessage(sessionId, message, attachedMemories) ==
  LET result == sendMessage(sessionId, message, attachedMemories)
  IN  /\ sessions' = result.sessions
      /\ upstream' = result.upstream
      /\ reply' = [op |-> "RealtimeAgent.sendMessage",
                   status |-> IF result.threw THEN 500 ELSE 200,
                   request |-> [sessionId |-> sessionId, message |-> message,
                                attachedMemories |-> attachedMemories],
                   body |-> [error |-> result.error]]
      /\ UNCHANGED <<pending, clients>>
      /\ UNCHANGED memVars

AgentCreate ==
  /\ UNCHANGED page
  /\ Len(upstream) < MaxSessions
  /\ \E selectedMemories \in Attached : PostRealtimeSession("u1", selectedMemories)

AgentOpen == UNCHANGED page /\ \E p \in pending : UpstreamOpen(p)

AgentSendMessage ==
  /\ UNCHANGED page
  /\ \E sessionId \in SessionIds, message \in AgentTexts, attachedMemories \in Attached :
       /\ sessionId \in DOMAIN sessions =>
            Len(upstream[sessions[sessionId].ws].sent) < MaxAgentSent
       /\ SendMessage(sessionId, message, attachedMemories)

NextAgent == AgentCreate \/ AgentOpen \/ AgentSendMessage

SpecAgent == InitRT /\ [][NextAgent]_vars

\* what has just been sent on socket u
Sent(u) == SubSeq(upstream'[u].sent, Len(upstream[u].sent) + 1, Len(upstream'[u].sent))

\* C20. A sendMessage call on a session sends, in this order, session.update
\* (only when attachedMemories is not empty), conversation.item.create with the
\* text and response.create, and lastUserMessage is the text by then.
C20_Step ==
  (/\ reply'.op = "RealtimeAgent.sendMessage"
   /\ reply'.status = 200
   /\ upstream'[sessions[reply'.request.sessionId].ws].sent
        # upstream[sessions[reply'.request.sessionId].ws].sent) =>
    LET r == reply'.request
        u == sessions[r.sessionId].ws
    IN  /\ Sent(u) = (IF r.attachedMemories = <<>> THEN <<>>
                      ELSE <<sessionUpdate(updateInstructions(r.attachedMemories))>>)
                       \o <<conversationItem(r.message), responseCreate>>
        /\ sessions'[r.sessionId].lastUserMessage = <<r.message>>
        /\ \A v \in DOMAIN upstream : v # u => upstream'[v] = upstream[v]

C20_SendsInOrder == [][C20_Step]_vars

\* a message was sent with a memory attached after an earlier one
C20_Witness ==
  /\ reply.op = "RealtimeAgent.sendMessage"
  /\ reply.status = 200
  /\ reply.request.attachedMemories # <<>>
  /\ sessions[reply.request.sessionId].lastUserMessage = <<reply.request.message>>
  /\ Count(upstream[sessions[reply.request.sessionId].ws].sent, "response.create") > 1

\* C15. The memoryId a successful POST /api/memories answers is the
\* _additional.id under which the stored memory is listed afterwards.
C15_ReturnedIdIsStoredId ==
  (reply.op = "POST /api/memories" /\ reply.status = 200) =>
    \E i \in 1..Len(store) :
      /\ listResult(store[i]).additional.id = reply.body.memoryId
      /\ listResult(store[i]).content = reply.request.content
      /\ listResult(store[i]).userId = reply.request.userId

\* C16. Every stored memory has an importance between 0 and 1 (0..10 tenths),
\* whatever importance a POST /api/memories carries, the default included.
C16_ImportanceInRange ==
  \A i \in 1..Len(store) : store[i].properties.importance \in 0..10

\* C17. searchMemories(query, u, limit) returns min(limit, n) memories of u,
\* n being the number of memories u owns, in increasing distance to the
\* query, whatever other users have stored.
C17_NearestOfUser ==
  IsReply("POST /api/memories/search", 200) =>
    LET limit == IF reply.request.limit = <<>> THEN ApiSearchLimit ELSE reply.request.limit[1]
        n     == Len(OwnedBy(store, reply.request.userId))
    IN  /\ Len(reply.body) = (IF limit < n THEN limit ELSE n)
        /\ \A m \in Range(reply.body) : m.userId = reply.request.userId
        /\ \A k \in 1..(Len(reply.body) - 1) :
             reply.body[k].additional.distance <= reply.body[k + 1].additional.distance

\* C21. An operation on a session id that is not in the sessions map fails
\* without effect: the message and update-memories routes answer 500 after
\* 'Session not found', nothing is sent upstream and the map is unchanged; a
\* client is sent 'joined' only for a session of the map, and the error event
\* of a failed join_session comes with no change upstream.
C21_Step ==
  /\ (/\ reply' # reply
      /\ reply'.op \in {"POST /api/realtime/message", "POST /api/realtime/update-memories"}
      /\ reply'.status # 400
      /\ reply'.request.sessionId \notin DOMAIN sessions) =>
       /\ reply'.status = 500
       /\ reply'.thrown = "Session not found"
       /\ upstream' = upstream
       /\ sessions' = sessions
  /\ \A w \in DOMAIN clients :
       \A i \in 1..Len(Fresh(w)) :
         /\ Fresh(w)[i].type = "joined" => Fresh(w)[i].sessionId \in DOMAIN sessions
         /\ Fresh(w)[i] = [type |-> "error", error |-> "Invalid message format"] =>
              /\ upstream' = upstream
              /\ sessions' = sessions
              /\ Len(Fresh(w)) = 1

C21_UnknownSessionFails == [][C21_Step]_vars

\* a message for an unknown session was answered 500 and a client that asked
\* to join an unknown session holds the error event, with nothing sent upstream
C21_Witness ==
  /\ reply.op = "POST /api/realtime/message"
  /\ reply.status = 500
  /\ reply.request.sessionId \notin DOMAIN sessions
  /\ \E w \in DOMAIN clients :
       clients[w].received = <<[type |-> "error", error |-> "Invalid message format"]>>

\* the createSession requests of the page that are in flight
Creating(p) == Len(SelectSeq(p.outbox, LAMBDA r : r.op = "POST /api/realtime/session"))

\* the user has just switched the page to realtime mode
SwitchedOn == ~page.useRealtime /\ page'.useRealtime

\* C22. A createSession request is issued only by a switch to realtime mode,
\* one per switch: a switch with no session and no request in flight issues
\* exactly one, and nothing else issues one, neither while a request is in
\* flight nor after one has succeeded or failed.
C22_Step ==
  /\ Creating(page') > Creating(page) =>
       /\ SwitchedOn
       /\ Creating(page') = Creating(page) + 1
  /\ (SwitchedOn /\ page.sessionId = NoId /\ ~page.isLoading) =>
       Creating(page') = Creating(page) + 1

C22_OneRequestPerSwitch == [][C22_Step]_vars

\* ----------------------------------------------------------------------
\* SpecChat: one realtime conversation of the page, from the switch to
\* realtime mode to the responses streamed back to it
\* ----------------------------------------------------------------------
MaxChatEmitted == 3

ChatToggle == ~page.useRealtime /\ PageToggleMode

ChatDeliver ==
  \E k \in 1..Len(page.outbox) :
    /\ page.outbox[k].op = "POST /api/realtime/message"
         => Len(upstream[sessions[page.outbox[k].sessionId].ws].sent) < MaxPageSent
    /\ PageDeliver(k, <<>>)

ChatSessionCreated == \E p \in pending : PageSessionCreated(p)

ChatType ==
  /\ page.sessionId # NoId
  /\ page.text = <<>>
  /\ \E value \in Messages : PageType(value)

ChatSubmit ==
  /\ CanFetch
  /\ page.text # <<>>
  /\ PageSubmit

ChatClear == page.messages # <<>> /\ PageClearChat

ChatEmit ==
  /\ UNCHANGED page
  /\ \E u \in DOMAIN upstream :
       /\ Emitted < MaxChatEmitted
       /\ \E event \in Emittable(u) :
            IF \E k \in 1..Len(upstream[u].listeners) :
                 Extracts(event, upstream[u].listeners[k].sessionId)
            THEN \E extraction \in Extractions, insertOk \in BOOLEAN :
                   UpstreamMessage(u, event, extraction, insertOk)
            ELSE UpstreamMessage(u, event, <<>>, TRUE)

ChatReceive ==
  /\ page.mounted
  /\ PageReceive

NextChat ==
  \/ ChatToggle
  \/ ChatDeliver
  \/ ChatSessionCreated
  \/ ChatType
  \/ ChatSubmit
  \/ ChatClear
  \/ ChatEmit
  \/ ChatReceive

SpecChat == InitPage /\ [][NextChat]_vars

\* the hook has just handled an event of this type
Handled(type) ==
  /\ page'.handled = page.handled + 1
  /\ clients[page.ws].received[page'.handled].type = type

\* the text_delta events among the first k events of a log that came after
\* its last response_complete
ResponseDeltas(log, k) ==
  LET ends   == {j \in 1..k : log[j].type = "response_complete"}
      start  == IF ends = {} THEN 0 ELSE CHOOSE j \in ends : \A i \in ends : i <= j
      deltas == SelectSeq(SubSeq(log, start + 1, k), LAMBDA e : e.type = "text_delta")
  IN  [i \in 1..Len(deltas) |-> deltas[i].delta]

\* the messages that are streaming
Streaming(p) == {i \in 1..Len(p.messages) : p.messages[i].isStreaming}

\* C23. When the hook handles response_complete, the assistant message it
\* finalises holds the text_delta events of that response, all of them and in
\* order, however they interleave with the user's sendMessage and
\* clearMessages.
C23_Step ==
  Handled("response_complete") =>
    \A i \in Streaming(page) :
      page'.messages[i].content = ResponseDeltas(clients[page.ws].received, page.handled)

C23_FinalisedIsWholeResponse == [][C23_Step]_vars

\* C24. At most one message is streaming, it is an assistant message and the
\* last of the list, and right after response_complete none is streaming.
C24_Step ==
  /\ Cardinality(Streaming(page')) <= 1
  /\ \A i \in Streaming(page') :
       page'.messages[i].role = "assistant" /\ i = Len(page'.messages)
  /\ Handled("response_complete") => Streaming(page') = {}

C24_OneStreamingLast == [][C24_Step]_vars

\* ----------------------------------------------------------------------
\* SpecInput: the chat input of the page in both modes, one request of the
\* page in flight at a time
\* ----------------------------------------------------------------------
MaxPageStore == 2
MaxPageMessages == 1
MaxInputSent == 3

\* the user acts once the server has taken the page's requests
Idle == page.outbox = <<>>

InputToggle == Idle /\ PageToggleMode

InputAttach == Idle /\ \E memory \in PanelMemories : PageAttachMemory(memory)

InputAttachTwice == Idle /\ \E memory \in PanelMemories : PageAttachMemoryTwice(memory)

InputDetach == Idle /\ \E memory \in Range(page.attachedMemories) : PageDetachMemory(memory)

InputType == Idle /\ \E value \in PageTexts : PageType(value)

InputSubmit ==
  /\ Idle
  /\ Len(Shown(page)) < MaxPageMessages
  /\ PageSubmit

InputClear ==
  /\ Idle
  /\ Shown(page) # <<>> \/ page.attachedMemories # <<>>
  /\ PageClearChat

InputDeliver ==
  \E k \in 1..Len(page.outbox) :
    /\ page.outbox[k].op \in {"POST /api/realtime/update-memories",
                              "POST /api/realtime/message"}
         => (page.outbox[k].sessionId \in DOMAIN sessions
               => Len(upstream[sessions[page.outbox[k].sessionId].ws].sent) < MaxInputSent)
    /\ page.outbox[k].op = "POST /api/chat" => Len(store) < MaxPageStore
    /\ \E completion \in Answers(page.outbox[k]) : PageDeliver(k, completion)

InputSessionCreated == \E p \in pending : PageSessionCreated(p)

NextInput ==
  \/ InputToggle
  \/ InputAttach
  \/ InputAttachTwice
  \/ InputDetach
  \/ InputType
  \/ InputSubmit
  \/ InputClear
  \/ InputDeliver
  \/ InputSessionCreated

SpecInput == InitPage /\ [][NextInput]_vars

\* the page has just sent a message: the last request in flight is new and
\* carries a chat message
SentMessage ==
  /\ Len(page'.outbox) > Len(page.outbox)
  /\ page'.outbox[Len(page'.outbox)].op \in {"POST /api/chat", "POST /api/realtime/message"}

\* the memories the page passed with a message request
Passed(request) ==
  IF request.op = "POST /api/chat" THEN request.selectedMemories ELSE request.attached

\* the memories a shown message records; none where it has no such field
Recorded(m) == IF "attachedMemories" \in DOMAIN m THEN m.attachedMemories ELSE <<>>

\* C25. A submit that sends does so once, with the trimmed text and the
\* memories attached at that moment; the user message it adds records those
\* memories as attachedMemories, and afterwards the attached list and the text
\* are empty. With a blank text or while isLoading nothing is sent.
C25_Step ==
  /\ SentMessage =>
       LET new  == page'.outbox[Len(page'.outbox)]
           last == Shown(page')[Len(Shown(page'))]
       IN  /\ Len(page'.outbox) = Len(page.outbox) + 1
           /\ trim(page.text) # <<>> /\ ~isLoading(page)
           /\ new.message = trim(page.text)
           /\ Passed(new) = page.attachedMemories
           /\ Len(Shown(page')) = Len(Shown(page)) + 1
           /\ last.role = "user"
           /\ last.content = trim(page.text)
           /\ Recorded(last) = page.attachedMemories
           /\ page'.attachedMemories = <<>>
           /\ page'.text = <<>>
  /\ (trim(page.text) = <<>> \/ isLoading(page)) => ~SentMessage

C25_SubmitSendsOnce == [][C25_Step]_vars

====
